---- MODULE Spec2Model ----
(***************************************************************************)
(* lice: license-header rewriting over a directory tree (src/src/main.rs). *)
(*                                                                         *)
(* Text is a sequence of one-character strings.  Two state machines share  *)
(* the pure text functions:                                                *)
(*   PipelineSpec  one file put through process_file repeatedly, over a    *)
(*                 wide set of file contents and templates;                *)
(*   Spec          a whole run (LiceEngine::run): traversal, queue,        *)
(*                 workers, and the file system they read and write.       *)
(***************************************************************************)
EXTENDS Integers, Sequences, FiniteSets, TLC

\* ------------------------------------------------------------------------
\* Bounds of the model
\* ------------------------------------------------------------------------
\* Largest number of pieces a file content is assembled from (PipelineSpec).
MaxPieces == 3
\* Number of times the same file is put through the pipeline (PipelineSpec).
MaxPasses == 2

\* ------------------------------------------------------------------------
\* Text primitives (Rust str methods used by the engine)
\* ------------------------------------------------------------------------
NL == "\n"
CR == "\r"

\* char::is_whitespace, restricted to the characters of the model.
IsWhitespace(c) == c \in {" ", NL, CR, "\t"}

\* str::starts_with
StartsWith(s, p) == Len(p) <= Len(s) /\ SubSeq(s, 1, Len(p)) = p

\* str::ends_with
EndsWith(s, p) == Len(p) <= Len(s) /\ SubSeq(s, Len(s) - Len(p) + 1, Len(s)) = p

\* &s[n..] : the text without its first n characters.
Drop(s, n) == SubSeq(s, n + 1, Len(s))

\* The texts.  The loops over a text are recursive functions of the text.
Text == Seq(STRING)

\* str::find from position i on.
FindFrom[s \in Text, p \in Text, i \in Nat] ==
    IF i + Len(p) - 1 > Len(s) THEN 0
    ELSE IF SubSeq(s, i, i + Len(p) - 1) = p THEN i
    ELSE FindFrom[s, p, i + 1]

\* str::find : the 1-based position of the first occurrence of p in s,
\* 0 when there is none (Rust: Some(position - 1) / None).
Find(s, p) == FindFrom[s, p, 1]

\* str::trim_start
TrimStart[s \in Text] ==
    IF s = <<>> THEN s
    ELSE IF IsWhitespace(s[1]) THEN TrimStart[Tail(s)]
    ELSE s

\* str::trim_end
TrimEnd[s \in Text] ==
    IF s = <<>> THEN s
    ELSE IF IsWhitespace(s[Len(s)]) THEN TrimEnd[SubSeq(s, 1, Len(s) - 1)]
    ELSE s

\* str::trim
Trim(s) == TrimStart[TrimEnd[s]]

\* str::lines : split at every "\n"; a line's terminator ("\n" or "\r\n") is
\* not part of the line; a last line without terminator is a line when it
\* is not empty.
Lines[s \in Text] ==
    IF s = <<>> THEN <<>>
    ELSE LET i == Find(s, <<NL>>)
         IN  IF i = 0 THEN <<s>>
             ELSE LET raw  == SubSeq(s, 1, i - 1)
                      line == IF EndsWith(raw, <<CR>>)
                              THEN SubSeq(raw, 1, Len(raw) - 1) ELSE raw
                  IN  <<line>> \o Lines[Drop(s, i)]

\* [&str]::join
Join[ls \in Seq(Text), sep \in Text] ==
    IF ls = <<>> THEN <<>>
    ELSE IF Len(ls) = 1 THEN ls[1]
    ELSE ls[1] \o sep \o Join[Tail(ls), sep]

\* ------------------------------------------------------------------------
\* Style registry
\* ------------------------------------------------------------------------
STYLE_C_LIKE ==
    [start |-> <<"/", "*", NL>>, prefix |-> <<" ", "*", " ">>,
     end |-> <<" ", "*", "/", NL, NL>>]
STYLE_HASH == [start |-> <<>>, prefix |-> <<"#", " ">>, end |-> <<NL>>]
STYLE_DOUBLE_SLASH == [start |-> <<>>, prefix |-> <<"/", "/", " ">>, end |-> <<NL>>]
STYLE_DASH == [start |-> <<>>, prefix |-> <<"-", "-", " ">>, end |-> <<NL>>]

\* Option: None is the empty sequence, Some(x) the one-element sequence.
None == <<>>
Some(x) == <<x>>

BlockExts == { <<"c">>, <<"h">>, <<"c", "p", "p">>, <<"h", "p", "p">>, <<"c", "s", "s">> }
SlashExts == { <<"r", "s">>, <<"g", "o">>, <<"j", "a", "v", "a">>, <<"j", "s">>, <<"t", "s">> }
HashExts  == { <<"p", "y">>, <<"s", "h">>, <<"r", "b">>, <<"y", "a", "m", "l">>,
               <<"t", "o", "m", "l">> }
DashExts  == { <<"l", "u", "a">>, <<"h", "s">>, <<"s", "q", "l">> }

\* Mutant of get_language_style: an unknown extension gets the "# " style.
get_language_style_fallback(ext) ==
    IF ext \in BlockExts THEN Some(STYLE_C_LIKE)
    ELSE IF ext \in SlashExts THEN Some(STYLE_DOUBLE_SLASH)
    ELSE IF ext \in DashExts THEN Some(STYLE_DASH)
    ELSE Some(STYLE_HASH)

get_language_style(ext) ==
    IF ext \in BlockExts THEN Some(STYLE_C_LIKE)
    ELSE IF ext \in SlashExts THEN Some(STYLE_DOUBLE_SLASH)
    ELSE IF ext \in HashExts THEN Some(STYLE_HASH)
    ELSE IF ext \in DashExts THEN Some(STYLE_DASH)
    ELSE None

\* Path::extension on a file name: the text after the last "." of the name;
\* None when the name has no "." or its only "." is the first character.
extension(name) ==
    LET dots == { i \in 1..Len(name) : name[i] = "." }
    IN  IF dots = {} THEN None
        ELSE LET last == CHOOSE i \in dots : \A j \in dots : i >= j
             IN  IF last = 1 THEN None ELSE Some(Drop(name, last))

\* ------------------------------------------------------------------------
\* Header synthesis, detection, replacement
\* ------------------------------------------------------------------------
\* The loop of make_header_for_style over the lines of the template.
HeaderLines[ls \in Seq(Text), prefix \in Text] ==
    IF ls = <<>> THEN <<>>
    ELSE prefix \o TrimEnd[ls[1]] \o <<NL>> \o HeaderLines[Tail(ls), prefix]

\* Mutant of make_header_for_style: the template lines keep their trailing
\* whitespace.
HeaderLinesUntrimmed[ls \in Seq(Text), prefix \in Text] ==
    IF ls = <<>> THEN <<>>
    ELSE prefix \o ls[1] \o <<NL>> \o HeaderLinesUntrimmed[Tail(ls), prefix]

make_header_untrimmed(raw, style) ==
    (IF style.start # <<>> THEN style.start ELSE <<>>)
    \o HeaderLinesUntrimmed[Lines[raw], style.prefix]
    \o (IF style.end # <<>> THEN style.end ELSE <<NL>>)

make_header_for_style(raw, style) ==
    (IF style.start # <<>> THEN style.start ELSE <<>>)
    \o HeaderLines[Lines[raw], style.prefix]
    \o (IF style.end # <<>> THEN style.end ELSE <<NL>>)

SHEBANG == <<"#", "!">>

\* Mutant of shebang_offset: the detector does not skip the "#!" line.
shebang_offset_unskipped(content) == 0

\* The number of characters the detector skips: the "#!" line and its
\* newline, 0 when there is no "#!" or no newline.
shebang_offset(content) ==
    IF StartsWith(content, SHEBANG) THEN Find(content, <<NL>>) ELSE 0

\* Mutant of is_current: the header is compared without header.trim().
is_current_untrimmed_header(content, header) ==
    StartsWith(TrimStart[Drop(content, shebang_offset(content))], header)

\* The check at the top of apply_license ("License OK").
is_current(content, header) ==
    StartsWith(TrimStart[Drop(content, shebang_offset(content))], Trim(header))

\* The index (0-based, as in the code) of the first line kept by the scan
\* that starts at index k.
scan_old_header[lines \in Seq(Text), k \in Nat, prefix \in Text] ==
    IF k >= Len(lines) THEN k
    ELSE LET trimmed == Trim(lines[k + 1])
         IN  IF StartsWith(trimmed, Trim(prefix))
             THEN scan_old_header[lines, k + 1, prefix]
             ELSE IF trimmed = <<>> THEN k + 1
             ELSE k

\* Mutant of replace_line_comment_header: the scan does not stop at the
\* first blank line but goes on through comment lines and blank lines.
scan_through_blanks[lines \in Seq(Text), k \in Nat, prefix \in Text] ==
    IF k >= Len(lines) THEN k
    ELSE LET trimmed == Trim(lines[k + 1])
         IN  IF StartsWith(trimmed, Trim(prefix)) \/ trimmed = <<>>
             THEN scan_through_blanks[lines, k + 1, prefix]
             ELSE k

replace_through_blanks(content, header, style) ==
    LET lines       == Lines[content]
        has_shebang == lines # <<>> /\ StartsWith(lines[1], SHEBANG)
        keep_start_idx == scan_through_blanks[lines, IF has_shebang THEN 1 ELSE 0,
                                              style.prefix]
        body        == Join[SubSeq(lines, keep_start_idx + 1, Len(lines)), <<NL>>]
        out         == (IF has_shebang THEN lines[1] \o <<NL>> ELSE <<>>)
                       \o header \o body
    IN  IF EndsWith(out, <<NL>>) THEN out ELSE out \o <<NL>>

replace_line_comment_header(content, header, style) ==
    LET lines       == Lines[content]
        has_shebang == lines # <<>> /\ StartsWith(lines[1], SHEBANG)
        keep_start_idx == scan_old_header[lines, IF has_shebang THEN 1 ELSE 0, style.prefix]
        body        == Join[SubSeq(lines, keep_start_idx + 1, Len(lines)), <<NL>>]
        out         == (IF has_shebang THEN lines[1] \o <<NL>> ELSE <<>>)
                       \o header \o body
    IN  IF EndsWith(out, <<NL>>) THEN out ELSE out \o <<NL>>

\* The new_content expression of apply_license.
new_content(content, header, style) ==
    IF style.start # <<>>
    THEN IF StartsWith(TrimStart[content], style.start)
         THEN LET end_idx == Find(content, style.end)
              IN  IF end_idx # 0
                  THEN header \o TrimStart[Drop(content, end_idx - 1 + Len(style.end))]
                  ELSE header \o content
         ELSE header \o content
    ELSE replace_line_comment_header(content, header, style)

\* ------------------------------------------------------------------------
\* State
\* ------------------------------------------------------------------------
VARIABLES
    argv,               \* main: the command-line arguments after the program name
    exit_code,          \* main: the code process::exit was called with, if it was
    raw_license_text,   \* LiceEngine.raw_license_text
    file_name,          \* PipelineSpec: the name of the file processed
    orig,               \* PipelineSpec: the file's content before the first pass
    disk,               \* PipelineSpec: the file's content now
    log,                \* PipelineSpec: the outcome of each pass so far
    config,             \* LiceEngine.config: license_file, excludes, targets, jobs
    available_parallelism, \* what thread::available_parallelism returns here
    fs0,                \* content of every file when the run starts
    fs,                 \* content of every file now
    fault,              \* the I/O operation that fails in this run, if any
    main_pc,            \* where the thread that called run is
    stack,              \* traverse: the stack of paths
    queue,              \* the channel: paths sent and not yet received
    tx_open,            \* the sender tx has not been dropped
    lock,               \* the worker holding the Mutex around rx, 0 if none
    wpc,                \* where each worker thread is
    job,                \* per thread: the process_file call it is in
    yielded,            \* per path: times traverse passed it to the callback
    popped,             \* per path: times a worker received it
    processed,          \* per path: process_file calls that returned
    reads,              \* paths read with fs::read_to_string
    written,            \* paths truncated or written by fs::write
    failed,             \* paths on which a read or write failed
    result              \* what run returned

pipeline_vars == <<file_name, orig, disk, log>>
main_vars == <<argv, exit_code>>
run_vars == <<config, available_parallelism, fs0, fs, fault, main_pc, stack, queue, tx_open, lock, wpc, job,
              yielded, popped, processed, reads, written, failed, result>>
vars == <<raw_license_text, pipeline_vars, main_vars, run_vars>>
run_vars_but_pc == <<config, available_parallelism, fs0, fs, fault, stack, queue, tx_open,
                     lock, wpc, job, yielded, popped, processed, reads, written, failed,
                     result>>

\* ------------------------------------------------------------------------
\* The directory tree of a run
\* ------------------------------------------------------------------------
\* Largest worker count given with -j.
MaxThreads == 2

\* Names (path components) are texts; a path is a sequence of names.
A      == <<"a">>
V      == <<"v">>
D      == <<"d">>
M_PY   == <<"m", ".", "p", "y">>
N_TXT  == <<"n", ".", "t", "x", "t">>
G_C    == <<"g", ".", "c">>
README == <<"R">>

P_A == <<A>>                    \* a/
P_M == <<A, M_PY>>              \* a/m.py
P_V == <<A, V>>                 \* a/v/
P_N == <<A, V, N_TXT>>          \* a/v/n.txt
P_D == <<A, V, D>>              \* a/v/d/
P_G == <<A, V, D, G_C>>         \* a/v/d/g.c
P_R == <<A, V, D, README>>      \* a/v/d/R

Dirs      == { P_A, P_V, P_D }
FilePaths == { P_M, P_N, P_G, P_R }

\* Path::is_dir
is_dir(path) == path \in Dirs

\* The names fs::read_dir finds in a directory.
Entries(dir) ==
    IF dir = P_A THEN { M_PY, V }
    ELSE IF dir = P_V THEN { N_TXT, D }
    ELSE IF dir = P_D THEN { G_C, README }
    ELSE {}

\* fs::read_dir yields the entries in an order the platform chooses.
Orderings(S) ==
    { o \in [1..Cardinality(S) -> S] : { o[i] : i \in 1..Cardinality(S) } = S }

\* The license template of the runs.
License == <<"L", NL>>

\* Contents a/m.py may start with: a "#!" script without header, and a
\* file that carries the current header.
StaleScript   == SHEBANG \o <<"s", NL, "c", NL>>
CurrentSource == make_header_for_style(License, STYLE_HASH) \o <<"c", NL>>

InitialFiles ==
    { [p \in FilePaths |->
          IF p = P_M THEN m
          ELSE IF p = P_G THEN <<"/", "*", NL, " ", "*", " ", "O", NL, " ", "*", "/", NL, NL, "c", NL>>
          ELSE <<"c", NL>>] : m \in { StaleScript, CurrentSource } }

\* The I/O failure of a run: none, or one operation on one path that fails
\* every time it is tried.
NoFault == [path |-> <<>>, kind |-> "none"]
Faults ==
    { NoFault,
      [path |-> P_M, kind |-> "read"],      \* fs::read_to_string fails
      [path |-> P_M, kind |-> "create"],    \* fs::write fails opening the file
      [path |-> P_M, kind |-> "write"],     \* fs::write fails after truncating
      [path |-> P_V, kind |-> "read_dir"] } \* fs::read_dir fails
Fails(path, kind) == fault = [path |-> path, kind |-> kind]

TargetLists == { <<P_A>>, <<P_D>>, <<P_A, P_M>> }
ExcludeSets == { {}, { V } }

\* The worker count used when -j is absent and the platform gives no hint.
FallbackThreads == 4

\* The largest worker count of a run.
MaxWorkers == IF MaxThreads > FallbackThreads THEN MaxThreads ELSE FallbackThreads

Threads == 0..MaxWorkers       \* 0 is the thread that called run
Workers == 1..MaxWorkers

\* What thread::available_parallelism can return: Err (None here) or a
\* non-zero count.
Hints == { None } \cup { Some(n) : n \in 1..MaxThreads }

\* The worker count of run: the -j value, else the platform's hint, else 4.
num_threads ==
    IF config.jobs # None THEN config.jobs[1]
    ELSE IF available_parallelism # None THEN available_parallelism[1]
    ELSE FallbackThreads

\* The path of the license template file, as given with -f.
LICENSE_FILE == <<"L">>

Idle == [path |-> <<>>, stage |-> "idle", new |-> <<>>]
NoCounts == [p \in FilePaths |-> 0]

\* No part of run has happened.
Unstarted ==
    /\ stack = <<>>
    /\ queue = <<>>
    /\ tx_open = FALSE
    /\ lock = 0
    /\ wpc = [w \in Workers |-> "unspawned"]
    /\ job = [t \in Threads |-> Idle]
    /\ yielded = NoCounts
    /\ popped = NoCounts
    /\ processed = NoCounts
    /\ reads = {}
    /\ written = {}
    /\ failed = {}
    /\ result = "running"

\* The engine before run is called.
RunAtRest == main_pc = "start" /\ Unstarted

\* ------------------------------------------------------------------------
\* PipelineSpec: one file, processed MaxPasses times
\* ------------------------------------------------------------------------
\* License templates: empty, one line, trailing blanks and no final newline,
\* a blank line inside, only a blank line, leading blanks.
Templates ==
    { <<>>,
      <<"L", NL>>,
      <<"L", " ", NL, "M">>,
      <<"L", NL, NL, "M", NL>>,
      <<NL>>,
      <<" ", "L", NL>> }

\* One extension per style of the registry.
PipelineNames ==
    { <<"f", ".">> \o e : e \in { <<"c">>, <<"r", "s">>, <<"p", "y">>, <<"l", "u", "a">> } }

\* A header without its last character: the blank line that separates it
\* from the body is missing.
Unseparated(header) == SubSeq(header, 1, Len(header) - 1)

\* The pieces file contents are assembled from: a "#!" line, the current
\* header, a header synthesized from another template, each of the two
\* without its separating blank line, an opener alone, a closer without its
\* blank line, a comment line, code with and without newline, a blank line,
\* a blank.
Pieces(style, header) ==
    { SHEBANG \o <<"s", NL>>,
      header,
      make_header_for_style(<<"O", NL>>, style),
      Unseparated(header),
      Unseparated(make_header_for_style(<<"O", NL>>, style)),
      style.start \o <<"o", NL>>,
      style.prefix \o <<"o", NL>>,
      <<" ", "*", "/", NL>>,
      <<"c", NL>>,
      <<"c">>,
      <<NL>>,
      <<" ">> }

RECURSIVE Concats(_, _)
Concats(pieces, n) ==
    IF n = 0 THEN { <<>> }
    ELSE LET shorter == Concats(pieces, n - 1)
         IN  shorter \cup { p \o c : p \in pieces, c \in shorter }

\* A file name for every extension of the style table.
TableNames ==
    { <<"f", ".">> \o e : e \in BlockExts \cup SlashExts \cup HashExts \cup DashExts }

\* The files of PipelineSpec: under the names of PipelineNames every content
\* assembled from the pieces; under the other names of the style table the
\* empty file and the file that holds just the synthesized header.
PipelineInit ==
    /\ raw_license_text \in Templates
    /\ file_name \in TableNames
    /\ LET style  == get_language_style(extension(file_name)[1])[1]
           header == make_header_for_style(raw_license_text, style)
       IN  disk \in IF file_name \in PipelineNames
                    THEN Concats(Pieces(style, header), MaxPieces)
                    ELSE { <<>>, header }
    /\ orig = disk
    /\ log = <<>>
    /\ argv = <<>>
    /\ exit_code = None
    /\ config = [license_file |-> Some(LICENSE_FILE), excludes |-> {}, targets |-> <<>>,
                 jobs |-> Some(1)]
    /\ available_parallelism = None
    /\ fs0 = [p \in FilePaths |-> <<>>]
    /\ fs = fs0
    /\ fault = NoFault
    /\ RunAtRest

\* apply_license on content, without I/O failure: the outcome and the
\* content the file has afterwards.
apply_license(content, raw, style) ==
    LET header == make_header_for_style(raw, style)
    IN  IF is_current(content, header)
        THEN [outcome |-> "current", content |-> content]
        ELSE [outcome |-> "written", content |-> new_content(content, header, style)]

\* process_file on a file of the given name and content.
process_file(name, content, raw) ==
    LET ext == extension(name)
    IN  IF ext = None THEN [outcome |-> "ignored", content |-> content]
        ELSE LET style == get_language_style(ext[1])
             IN  IF style = None THEN [outcome |-> "unsupported", content |-> content]
                 ELSE apply_license(content, raw, style[1])

ProcessFile ==
    /\ Len(log) < MaxPasses
    /\ LET r == process_file(file_name, disk, raw_license_text)
       IN  /\ disk' = r.content
           /\ log' = Append(log, r.outcome)
    /\ UNCHANGED <<raw_license_text, file_name, orig, main_vars, run_vars>>

PipelineNext == ProcessFile

PipelineSpec == PipelineInit /\ [][PipelineNext]_vars

\* ------------------------------------------------------------------------
\* Properties of the per-file pipeline (PipelineSpec)
\* ------------------------------------------------------------------------
\* The style of the file of PipelineSpec.
FileStyle == get_language_style(extension(file_name)[1])[1]
IsBlockStyle(style) == style.start # <<>>

\* The first line of a text, its newline included (the whole text when it
\* has no newline).
FirstLine(s) == IF Find(s, <<NL>>) = 0 THEN s ELSE SubSeq(s, 1, Find(s, <<NL>>))
HasShebangLine(s) == StartsWith(s, SHEBANG) /\ Find(s, <<NL>>) # 0

\* C1: once a file has been processed, every further pass with the same
\* template finds the header current, writes nothing, and leaves the
\* content byte-identical.
C1_Idempotence ==
    [][Len(log) >= 1 => (disk' = disk /\ log' = Append(log, "current"))]_vars

\* C1 witness: a file with a "#!" line was rewritten by the first pass and
\* found current by the second.
C1_Witness ==
    /\ log = <<"written", "current">>
    /\ HasShebangLine(orig)
    /\ disk # orig

\* C2: a block-style file that starts (after leading whitespace) with the
\* opener and contains no closer is byte-identical after a pass.
C2_MalformedBlockUntouched ==
    ( /\ IsBlockStyle(FileStyle)
      /\ StartsWith(TrimStart[orig], FileStyle.start)
      /\ Find(orig, FileStyle.end) = 0
      /\ Len(log) >= 1 )
    => disk = orig

\* C3: for both comment styles, a file that begins with a "#!" line still
\* has that exact first line after a header insertion or update.
C3_ShebangPreserved ==
    ( /\ HasShebangLine(orig)
      /\ Len(log) >= 1
      /\ log[1] = "written" )
    => FirstLine(disk) = FirstLine(orig)

\* The header synthesized for the file of PipelineSpec.
FileHeader == make_header_for_style(raw_license_text, FileStyle)

\* The content carries exactly the header: after the "#!" line and leading
\* whitespace it starts with the header (its trailing whitespace aside), the
\* header's last line holds nothing but whitespace after that, and in a line
\* style no further comment line follows it.
CarriesExactly(content, header, style) ==
    LET body == TrimStart[Drop(content, shebang_offset(content))]
        h    == Trim(header)
        rest == Lines[Drop(body, Len(h))]
    IN  /\ StartsWith(body, h)
        /\ Len(rest) >= 1 => Trim(rest[1]) = <<>>
        /\ (~IsBlockStyle(style) /\ Len(rest) >= 2)
               => ~StartsWith(Trim(rest[2]), Trim(style.prefix))

\* C11: the detector reports current exactly when the content carries
\* exactly the synthesized header (leading blank lines tolerated); a header
\* line with extra trailing text or extra header lines are not current and
\* lead to a rewrite (stated for the templates whose header is not blank).
C11_DetectorExact ==
    (Len(log) >= 1 /\ Trim(FileHeader) # <<>>) =>
        (log[1] = "current" <=> CarriesExactly(orig, FileHeader, FileStyle))

\* C12: for every extension of the style table and every template, the
\* synthesized header taken as a file's content is reported current, and a
\* pass over such a file writes nothing.
C12_StyleCorrectness ==
    (Len(log) >= 1 /\ orig = FileHeader) => (log[1] = "current" /\ disk = orig)

\* C12 witness: a file holding just the header of a two-line template was
\* processed and found current.
C12_Witness ==
    /\ raw_license_text = <<"L", " ", NL, "M">>
    /\ file_name = <<"f", ".", "t", "o", "m", "l">>
    /\ orig = FileHeader
    /\ log = <<"current">>

\* The positions of the newlines of a text, in increasing order.
NewlinesOf(s) == SelectSeq([i \in 1..Len(s) |-> i], LAMBDA i : s[i] = NL)

\* The number of lines of a text: one for every newline, and one more for
\* text after the last newline.
LineCount(s) ==
    Len(NewlinesOf(s)) + (IF s # <<>> /\ s[Len(s)] # NL THEN 1 ELSE 0)

\* The i-th line of a text whose newlines are at the positions nl: from
\* after the previous newline up to the next.
LineBetween(s, nl, i) ==
    SubSeq(s, IF i = 1 THEN 1 ELSE nl[i - 1] + 1,
              IF i <= Len(nl) THEN nl[i] - 1 ELSE Len(s))
NthLine(s, i) == LineBetween(s, NewlinesOf(s), i)

\* A text up to its last character that is not whitespace.
WithoutTrailingWhitespace(s) ==
    LET solid == { i \in 1..Len(s) : ~IsWhitespace(s[i]) }
    IN  IF solid = {} THEN <<>>
        ELSE SubSeq(s, 1, CHOOSE i \in solid : \A j \in solid : j <= i)

\* The text is the start marker, then one line per template line, each the
\* prefix and the template line without trailing whitespace, then the tail.
IsHeaderOf(h, raw, style) ==
    LET tail == IF IsBlockStyle(style) THEN style.end ELSE <<NL>>
        mid  == SubSeq(h, Len(style.start) + 1, Len(h) - Len(tail))
    IN  /\ Len(h) >= Len(style.start) + Len(tail)
        /\ StartsWith(h, style.start)
        /\ EndsWith(h, tail)
        /\ mid = <<>> \/ mid[Len(mid)] = NL
        /\ LineCount(mid) = LineCount(raw)
        /\ \A i \in 1..LineCount(raw) :
               NthLine(mid, i) = style.prefix \o WithoutTrailingWhitespace(NthLine(raw, i))

\* C15: the synthesized header is the start marker (block style), then for
\* each template line in order prefix + line without trailing whitespace +
\* newline (a blank template line gives exactly the prefix), then the end
\* marker (block style) or one more newline (line style); a rewritten file
\* carries it at its start, in a line style after the "#!" line.  The
\* header depends on the template and the file name only, which no pass
\* changes, so its shape is examined before the first pass.
C15_HeaderSynthesis ==
    /\ log = <<>> => IsHeaderOf(FileHeader, raw_license_text, FileStyle)
    /\ (raw_license_text = <<"L", " ", NL, "M">> /\ FileStyle = STYLE_HASH)
           => FileHeader = <<"#", " ", "L", NL, "#", " ", "M", NL, NL>>
    /\ (Len(log) >= 1 /\ log[1] = "written") =>
           LET skip == IF ~IsBlockStyle(FileStyle) /\ StartsWith(orig, SHEBANG)
                       THEN Len(Lines[orig][1]) + 1 ELSE 0
           IN  StartsWith(Drop(disk, skip), FileHeader)

\* C15 witness: a script was rewritten with the header of a template that
\* has a blank line inside.
C15_Witness ==
    /\ raw_license_text = <<"L", NL, NL, "M", NL>>
    /\ file_name = <<"f", ".", "p", "y">>
    /\ HasShebangLine(orig)
    /\ log = <<"written">>
    /\ disk = FirstLine(orig) \o <<"#", " ", "L", NL, "#", " ", NL, "#", " ", "M", NL, NL>>
                \o Drop(orig, Len(FirstLine(orig)))

\* The lines of a text by position: the i-th line, without the "\r" of a
\* "\r\n" line ending.
LineAt(s, i) ==
    LET nl == NewlinesOf(s)
        l  == LineBetween(s, nl, i)
    IN  IF i <= Len(nl) /\ EndsWith(l, <<CR>>)
        THEN SubSeq(l, 1, Len(l) - 1) ELSE l
LinesOf(s) == [i \in 1..LineCount(s) |-> LineAt(s, i)]

IsCommentLine(l, style) == StartsWith(Trim(l), Trim(style.prefix))
IsBlankLine(l) == Trim(l) = <<>>

\* The number of leading lines the line-style scan drops or sets aside: the
\* "#!" line, the maximal run of comment lines after it, and the blank line
\* that follows the run, if one does.
DroppedLines(ls, style) ==
    LET from == IF ls # <<>> /\ StartsWith(ls[1], SHEBANG) THEN 1 ELSE 0
        run  == CHOOSE j \in from..Len(ls) :
                    /\ \A i \in (from + 1)..j : IsCommentLine(ls[i], style)
                    /\ j = Len(ls) \/ ~IsCommentLine(ls[j + 1], style)
    IN  IF run < Len(ls) /\ IsBlankLine(ls[run + 1]) THEN run + 1 ELSE run

\* The reconstruction: the "#!" line and a newline, the header, the lines
\* that remain joined by newlines.
Reconstructed(content, header, style) ==
    LET ls == LinesOf(content)
    IN  (IF ls # <<>> /\ StartsWith(ls[1], SHEBANG) THEN ls[1] \o <<NL>> ELSE <<>>)
        \o header
        \o Join[SubSeq(ls, DroppedLines(ls, style) + 1, Len(ls)), <<NL>>]

\* The content written by a pass is the reconstruction, with a newline
\* added when the reconstruction does not end with one.
IsReconstruction(out, content, header, style) ==
    LET r == Reconstructed(content, header, style)
    IN  out = IF EndsWith(r, <<NL>>) THEN r ELSE r \o <<NL>>

\* C16: in a line style the rewritten content is the "#!" line (if any),
\* the header, and the lines left after dropping the maximal run of comment
\* lines and at most one blank line after it, joined by newlines; it ends
\* with a single newline.
C16_LineReconstruction ==
    (Len(log) >= 1 /\ log[1] = "written" /\ ~IsBlockStyle(FileStyle)) =>
        /\ IsReconstruction(disk, orig, FileHeader, FileStyle)
        /\ EndsWith(disk, <<NL>>)
        /\ ~EndsWith(disk, <<NL, NL>>)

\* C16 as amended: the same reconstruction; it ends with a newline, which
\* is added only when the reconstruction does not end with one already.
C16_LineReconstructionAmended ==
    (Len(log) >= 1 /\ log[1] = "written" /\ ~IsBlockStyle(FileStyle)) =>
        /\ IsReconstruction(disk, orig, FileHeader, FileStyle)
        /\ EndsWith(disk, <<NL>>)

\* C16 witness: a script with a stale comment line directly followed by
\* code was rewritten; the "#!" line and the code are kept.
C16_Witness ==
    /\ raw_license_text = <<"L", NL>>
    /\ file_name = <<"f", ".", "p", "y">>
    /\ orig = <<"#", "!", "s", NL, "#", " ", "o", NL, "c", NL>>
    /\ log = <<"written">>
    /\ disk = <<"#", "!", "s", NL, "#", " ", "L", NL, NL, "c", NL>>

BLOCK_OPEN  == <<"/", "*">>
BLOCK_CLOSE == <<"*", "/">>

\* The code lines of a block-style file, trimmed: the lines that are not
\* blank, not inside a "/*" ... "*/" comment, and do not start with "*".
block_code_lines[ls \in Seq(Text), in_comment \in BOOLEAN] ==
    IF ls = <<>> THEN <<>>
    ELSE LET l == Trim(ls[1])
         IN  IF in_comment
             THEN block_code_lines[Tail(ls), Find(l, BLOCK_CLOSE) = 0]
             ELSE IF StartsWith(l, BLOCK_OPEN)
             THEN block_code_lines[Tail(ls), Find(Drop(l, 2), BLOCK_CLOSE) = 0]
             ELSE IF l = <<>> \/ StartsWith(l, <<"*">>)
             THEN block_code_lines[Tail(ls), FALSE]
             ELSE <<l>> \o block_code_lines[Tail(ls), FALSE]

\* The code lines of a line-style file, trimmed: the lines that are neither
\* blank nor comment lines.
line_code_lines[ls \in Seq(Text), prefix \in Text] ==
    IF ls = <<>> THEN <<>>
    ELSE LET l == Trim(ls[1])
         IN  IF l = <<>> \/ StartsWith(l, Trim(prefix))
             THEN line_code_lines[Tail(ls), prefix]
             ELSE <<l>> \o line_code_lines[Tail(ls), prefix]

CodeLines(content, style) ==
    IF IsBlockStyle(style) THEN block_code_lines[LinesOf(content), FALSE]
    ELSE line_code_lines[LinesOf(content), style.prefix]

\* The lines of a text, each trimmed.
TrimmedLines(content) == [i \in 1..LineCount(content) |-> Trim(LineAt(content, i))]

\* a is a subsequence of b: its elements occur in b in the same order.
IsSubsequence[a \in Seq(Text), b \in Seq(Text)] ==
    IF a = <<>> THEN TRUE
    ELSE IF b = <<>> THEN FALSE
    ELSE IF a[1] = b[1] THEN IsSubsequence[Tail(a), Tail(b)]
    ELSE IsSubsequence[a, Tail(b)]

\* C19: for both comment styles every line of the original file that is
\* neither blank nor a comment line is a line of the rewritten content, in
\* the original order.
C19_NoCodeLoss ==
    (Len(log) >= 1 /\ log[1] = "written") =>
        IsSubsequence[CodeLines(orig, FileStyle), TrimmedLines(disk)]

\* ------------------------------------------------------------------------
\* Spec: one run of the engine
\* ------------------------------------------------------------------------
\* The engine as LiceEngine::new returns it, for every configuration of the
\* model.  The platform's hint is asked for only when -j is absent; the
\* runs without -j are runs over a/v/d with no exclusion and no failure.
Init ==
    /\ argv = <<>>
    /\ exit_code = None
    /\ raw_license_text = License
    /\ file_name = <<>>
    /\ orig = <<>>
    /\ disk = <<>>
    /\ log = <<>>
    /\ config \in [license_file : { Some(LICENSE_FILE) }, excludes : ExcludeSets,
                   targets : TargetLists,
                   jobs : { None } \cup { Some(n) : n \in 0..MaxThreads }]
    /\ available_parallelism \in Hints
    /\ fs0 \in InitialFiles
    /\ fs = fs0
    /\ fault \in Faults
    /\ config.jobs # None => available_parallelism = None
    /\ config.jobs = None =>
           (config.targets = <<P_D>> /\ config.excludes = {} /\ fault = NoFault)
    /\ RunAtRest

\* Mutant of is_excluded: only the last component is compared.
is_excluded_last_component(path) ==
    path[Len(path)] \in config.excludes

\* is_excluded: some component of the path equals some pattern.
is_excluded(path) ==
    \E i \in 1..Len(path) : path[i] \in config.excludes

\* run, up to the first pop of traverse: the mode is chosen; in pooled mode
\* the channel exists and the workers are spawned.
Run ==
    /\ main_pc = "start"
    /\ main_pc' = "traverse"
    /\ stack' = config.targets
    /\ IF num_threads = 1
       THEN UNCHANGED <<tx_open, wpc>>
       ELSE /\ tx_open' = TRUE
            /\ wpc' = [w \in Workers |-> IF w <= num_threads THEN "lock" ELSE "unspawned"]
    /\ UNCHANGED <<raw_license_text, pipeline_vars, main_vars, config,
                   available_parallelism, fs0, fs, fault, queue, lock,
                   job, yielded, popped, processed, reads, written, failed, result>>

\* The path on top of the stack (Vec::pop takes the last element).
Top == stack[Len(stack)]
Popped == SubSeq(stack, 1, Len(stack) - 1)

\* traverse: the stack is empty, the walk is over.  The sequential run
\* returns Ok; the pooled run goes on to drop tx.
TraverseEnd ==
    /\ main_pc = "traverse"
    /\ stack = <<>>
    /\ IF num_threads = 1
       THEN main_pc' = "done" /\ result' = "Ok"
       ELSE main_pc' = "drop_tx" /\ UNCHANGED result
    /\ UNCHANGED <<raw_license_text, pipeline_vars, main_vars, config,
                   available_parallelism, fs0, fs, fault, stack, queue,
                   tx_open, lock, wpc, job, yielded, popped, processed, reads, written,
                   failed>>

\* traverse: the popped path is excluded.
TraverseExcluded ==
    /\ main_pc = "traverse"
    /\ stack # <<>>
    /\ is_excluded(Top)
    /\ stack' = Popped
    /\ UNCHANGED <<raw_license_text, pipeline_vars, main_vars, config,
                   available_parallelism, fs0, fs, fault, main_pc, queue,
                   tx_open, lock, wpc, job, yielded, popped, processed, reads, written,
                   failed, result>>

\* Mutant of TraverseDir: a failed listing ends the traversal.
TraverseDir_abort_on_error ==
    /\ main_pc = "traverse"
    /\ stack # <<>>
    /\ ~is_excluded(Top)
    /\ is_dir(Top)
    /\ IF Fails(Top, "read_dir")
       THEN stack' = <<>>
       ELSE \E order \in Orderings(Entries(Top)) :
                stack' = Popped \o [i \in 1..Len(order) |-> Append(Top, order[i])]
    /\ UNCHANGED <<raw_license_text, pipeline_vars, main_vars, config,
                   available_parallelism, fs0, fs, fault, main_pc, queue,
                   tx_open, lock, wpc, job, yielded, popped, processed, reads, written,
                   failed, result>>

\* traverse: the popped path is a directory; its entries are pushed, or the
\* listing fails and is logged.
TraverseDir ==
    /\ main_pc = "traverse"
    /\ stack # <<>>
    /\ ~is_excluded(Top)
    /\ is_dir(Top)
    /\ IF Fails(Top, "read_dir")
       THEN stack' = Popped
       ELSE \E order \in Orderings(Entries(Top)) :
                stack' = Popped \o [i \in 1..Len(order) |-> Append(Top, order[i])]
    /\ UNCHANGED <<raw_license_text, pipeline_vars, main_vars, config,
                   available_parallelism, fs0, fs, fault, main_pc, queue,
                   tx_open, lock, wpc, job, yielded, popped, processed, reads, written,
                   failed, result>>

\* traverse: the popped path is a file and goes to the callback, which
\* calls process_file (sequential run) or sends the path (pooled run).
TraverseFile ==
    /\ main_pc = "traverse"
    /\ stack # <<>>
    /\ ~is_excluded(Top)
    /\ ~is_dir(Top)
    /\ stack' = Popped
    /\ yielded' = [yielded EXCEPT ![Top] = @ + 1]
    /\ IF num_threads = 1
       THEN /\ job' = [job EXCEPT ![0] = [path |-> Top, stage |-> "start", new |-> <<>>]]
            /\ main_pc' = "process"
            /\ UNCHANGED queue
       ELSE /\ queue' = Append(queue, Top)
            /\ UNCHANGED <<job, main_pc>>
    /\ UNCHANGED <<raw_license_text, pipeline_vars, main_vars, config,
                   available_parallelism, fs0, fs, fault, tx_open, lock,
                   wpc, popped, processed, reads, written, failed, result>>

\* Mutant of DropTx: run goes on to join without dropping tx.
DropTx_forgotten ==
    /\ main_pc = "drop_tx"
    /\ main_pc' = "join"
    /\ UNCHANGED <<raw_license_text, pipeline_vars, main_vars, config,
                   available_parallelism, fs0, fs, fault, stack, queue,
                   tx_open, lock, wpc, job, yielded, popped, processed, reads, written,
                   failed, result>>

\* drop(tx)
DropTx ==
    /\ main_pc = "drop_tx"
    /\ tx_open' = FALSE
    /\ main_pc' = "join"
    /\ UNCHANGED <<raw_license_text, pipeline_vars, main_vars, config,
                   available_parallelism, fs0, fs, fault, stack, queue,
                   lock, wpc, job, yielded, popped, processed, reads, written, failed,
                   result>>

\* for h in handles { h.join().unwrap(); } and the return of run.
JoinWorkers ==
    /\ main_pc = "join"
    /\ \A w \in Workers : w <= num_threads => wpc[w] = "exited"
    /\ main_pc' = "done"
    /\ result' = "Ok"
    /\ UNCHANGED <<raw_license_text, pipeline_vars, main_vars, config,
                   available_parallelism, fs0, fs, fault, stack, queue,
                   tx_open, lock, wpc, job, yielded, popped, processed, reads, written,
                   failed>>

\* A worker takes the Mutex around the receiver.
WLock(w) ==
    /\ wpc[w] = "lock"
    /\ lock = 0
    /\ lock' = w
    /\ wpc' = [wpc EXCEPT ![w] = "recv"]
    /\ UNCHANGED <<raw_license_text, pipeline_vars, main_vars, config,
                   available_parallelism, fs0, fs, fault, main_pc, stack,
                   queue, tx_open, job, yielded, popped, processed, reads, written, failed,
                   result>>

\* Mutant of recv_err: an empty channel is taken for a closed one.
recv_err_on_empty == queue = <<>>

\* recv() returns Err: every sender is dropped and nothing is left to receive.
recv_err == queue = <<>> /\ ~tx_open

\* Mutant of WRecv: the guard is bound to a variable of the loop body and
\* is still held while the received path is processed.
WRecv_guard_kept(w) ==
    /\ wpc[w] = "recv"
    /\ lock = w
    /\ \/ /\ queue # <<>>
          /\ queue' = Tail(queue)
          /\ popped' = [popped EXCEPT ![Head(queue)] = @ + 1]
          /\ job' = [job EXCEPT ![w] = [path |-> Head(queue), stage |-> "start", new |-> <<>>]]
          /\ wpc' = [wpc EXCEPT ![w] = "process"]
          /\ lock' = w
       \/ /\ recv_err
          /\ wpc' = [wpc EXCEPT ![w] = "exited"]
          /\ lock' = 0
          /\ UNCHANGED <<queue, popped, job>>
    /\ UNCHANGED <<raw_license_text, pipeline_vars, main_vars, config,
                   available_parallelism, fs0, fs, fault, main_pc, stack,
                   tx_open, yielded, processed, reads, written, failed, result>>

\* recv() under the lock: a path is received, or the channel is closed and
\* empty and the worker leaves its loop; the guard is dropped either way.
\* While the channel is open and empty the worker stays blocked here.
WRecv(w) ==
    /\ wpc[w] = "recv"
    /\ lock = w
    /\ \/ /\ queue # <<>>
          /\ queue' = Tail(queue)
          /\ popped' = [popped EXCEPT ![Head(queue)] = @ + 1]
          /\ job' = [job EXCEPT ![w] = [path |-> Head(queue), stage |-> "start", new |-> <<>>]]
          /\ wpc' = [wpc EXCEPT ![w] = "process"]
       \/ /\ recv_err
          /\ wpc' = [wpc EXCEPT ![w] = "exited"]
          /\ UNCHANGED <<queue, popped, job>>
    /\ lock' = 0
    /\ UNCHANGED <<raw_license_text, pipeline_vars, main_vars, config,
                   available_parallelism, fs0, fs, fault, main_pc, stack,
                   tx_open, yielded, processed, reads, written, failed, result>>

\* process_file returns to its caller: the callback of the sequential
\* traverse, or the loop of a worker.
Returned(t) ==
    /\ processed' = [processed EXCEPT ![job[t].path] = @ + 1]
    /\ job' = [job EXCEPT ![t] = Idle]
    /\ IF t = 0
       THEN main_pc' = "traverse" /\ UNCHANGED wpc
       ELSE wpc' = [wpc EXCEPT ![t] = "lock"] /\ UNCHANGED main_pc

\* process_file up to the end of the detector: no extension or no style
\* returns at once; else the file is read (a failure is logged) and is
\* either current or to be rewritten with the new content.
ProcessStart(t) ==
    /\ job[t].stage = "start"
    /\ LET path == job[t].path
           name == path[Len(path)]
           r    == process_file(name, fs[path], raw_license_text)
       IN  IF r.outcome \in { "ignored", "unsupported" }
           THEN Returned(t) /\ UNCHANGED <<reads, failed>>
           ELSE IF Fails(path, "read")
           THEN Returned(t) /\ failed' = failed \cup { path } /\ UNCHANGED reads
           ELSE /\ reads' = reads \cup { path }
                /\ UNCHANGED failed
                /\ IF r.outcome = "current"
                   THEN Returned(t)
                   ELSE /\ job' = [job EXCEPT ![t] = [path |-> path, stage |-> "create",
                                                      new |-> r.content]]
                        /\ UNCHANGED <<processed, main_pc, wpc>>
    /\ UNCHANGED <<raw_license_text, pipeline_vars, main_vars, config,
                   available_parallelism, fs0, fs, fault, stack, queue,
                   tx_open, lock, yielded, popped, written, result>>

\* fs::write is File::create followed by write_all.  First half:
\* File::create opens the file and truncates it, or fails and leaves it.
Create(t) ==
    /\ job[t].stage = "create"
    /\ LET path == job[t].path
       IN  IF Fails(path, "create")
           THEN Returned(t) /\ failed' = failed \cup { path } /\ UNCHANGED <<fs, written>>
           ELSE /\ fs' = [fs EXCEPT ![path] = <<>>]
                /\ written' = written \cup { path }
                /\ job' = [job EXCEPT ![t].stage = "write"]
                /\ UNCHANGED <<processed, main_pc, wpc, failed>>
    /\ UNCHANGED <<raw_license_text, pipeline_vars, main_vars, config,
                   available_parallelism, fs0, fault, stack, queue,
                   tx_open, lock, yielded, popped, reads, result>>

\* fs::write, second half: write_all stores the new content, or fails and
\* leaves the file as File::create left it.
Write(t) ==
    /\ job[t].stage = "write"
    /\ LET path == job[t].path
       IN  IF Fails(path, "write")
           THEN failed' = failed \cup { path } /\ UNCHANGED fs
           ELSE fs' = [fs EXCEPT ![path] = job[t].new] /\ UNCHANGED failed
    /\ Returned(t)
    /\ UNCHANGED <<raw_license_text, pipeline_vars, main_vars, config,
                   available_parallelism, fs0, fault, stack, queue,
                   tx_open, lock, yielded, popped, reads, written, result>>

MainStep == Run \/ TraverseEnd \/ TraverseExcluded \/ TraverseDir \/ TraverseFile
            \/ DropTx \/ JoinWorkers \/ ProcessStart(0) \/ Create(0) \/ Write(0)

WorkerStep(w) == WLock(w) \/ WRecv(w) \/ ProcessStart(w) \/ Create(w) \/ Write(w)

Next == MainStep \/ \E w \in Workers : WorkerStep(w)

Spec == Init /\ [][Next]_vars

\* Fair scheduling, in its weakest form: as long as some thread can take a
\* step, some step is taken.  Every schedule that is fair to each thread
\* satisfies it.
FairSpec == Spec /\ WF_vars(Next)

\* ------------------------------------------------------------------------
\* Properties of a run (Spec, FairSpec)
\* ------------------------------------------------------------------------
Spawned == { w \in Workers : w <= num_threads }
AllExited == \A w \in Spawned : wpc[w] = "exited"
Pooled == num_threads > 1
Busy(t) == job[t].stage # "idle"
InQueue(p) == \E i \in 1..Len(queue) : queue[i] = p

\* Some directory above the file (a component other than its name) is
\* named by an exclusion pattern.
UnderExcludedDir(p) == \E i \in 1..(Len(p) - 1) : p[i] \in config.excludes

\* C4: a file below a directory whose name equals an exclusion pattern is
\* never yielded to the visitor, never queued, never read, never written.
C4_ExclusionTransitive ==
    \A p \in FilePaths :
        UnderExcludedDir(p) =>
            /\ yielded[p] = 0
            /\ ~InQueue(p)
            /\ popped[p] = 0
            /\ \A t \in Threads : job[t].path # p
            /\ p \notin reads
            /\ p \notin written
            /\ fs[p] = fs0[p]

\* C4 witness: a finished run over a/ with "v" excluded that processed
\* a/m.py, while a/v/d/g.c lies two levels below the excluded directory.
C4_Witness ==
    /\ main_pc = "done"
    /\ config.excludes = { V }
    /\ config.targets = <<P_A>>
    /\ processed[P_M] = 1
    /\ UnderExcludedDir(P_G)

\* One sequential process_file call on a file with the given content: the
\* content the file has when the call returns.
AfterOneCall(p, content) ==
    LET r == process_file(p[Len(p)], content, raw_license_text)
    IN  IF r.outcome \in { "ignored", "unsupported", "current" } THEN content
        ELSE IF Fails(p, "read") \/ Fails(p, "create") THEN content
        ELSE IF Fails(p, "write") THEN <<>>
        ELSE r.content

RECURSIVE AfterCalls(_, _, _)
AfterCalls(p, content, n) ==
    IF n = 0 THEN content ELSE AfterCalls(p, AfterOneCall(p, content), n - 1)

\* What the sequential run leaves in a file: process_file applied once for
\* every time the traversal yields the path.
SequentialOutcome(p) == AfterCalls(p, fs0[p], yielded[p])

\* The sequential run (worker count 1) ends with SequentialOutcome in
\* every file.
SequentialRunOutcome ==
    (main_pc = "done" /\ num_threads = 1) =>
        \A p \in FilePaths : fs[p] = SequentialOutcome(p)

\* C5: with no I/O failure, a run with N > 1 workers ends with the same
\* content in every file as the run with one worker, under every
\* interleaving.
C5_ConcurrencyEquivalence ==
    (main_pc = "done" /\ num_threads >= 1 /\ fault = NoFault) =>
        \A p \in FilePaths : fs[p] = SequentialOutcome(p)

\* C6: in pooled mode no two workers are ever inside process_file for the
\* same path at the same time.
C6_NoSameFileRace ==
    Pooled =>
        \A w1, w2 \in Workers :
            (w1 # w2 /\ Busy(w1) /\ Busy(w2)) => job[w1].path # job[w2].path

\* The number of workers inside process_file for a path.
InProgress(p) == Cardinality({ w \in Workers : Busy(w) /\ job[w].path = p })

\* C7: in pooled mode a worker has left its loop only if the queue is
\* closed and empty; every pushed path is popped at most once per push and
\* each pop is one process_file call; when all workers have exited nothing
\* is queued and every push has been popped and processed.
C7_QueueDrain ==
    Pooled =>
        /\ \A w \in Spawned : wpc[w] = "exited" => (~tx_open /\ queue = <<>>)
        /\ \A p \in FilePaths :
               /\ popped[p] + Cardinality({ i \in 1..Len(queue) : queue[i] = p }) = yielded[p]
               /\ processed[p] + InProgress(p) = popped[p]
        /\ (main_pc # "start" /\ AllExited) =>
               /\ queue = <<>>
               /\ \A p \in FilePaths : popped[p] = yielded[p] /\ processed[p] = yielded[p]

\* C7 witness: two workers have exited after three files went through the
\* queue.
C7_Witness ==
    /\ num_threads = 2
    /\ main_pc # "start"
    /\ AllExited
    /\ processed[P_M] = 1
    /\ processed[P_N] = 1
    /\ processed[P_G] = 1

\* C8: under fair scheduling the run returns; when it has returned the
\* stack is empty, the queue is closed, and every worker has exited.
C8_Termination ==
    /\ <>(main_pc = "done")
    /\ [](main_pc = "done" =>
             /\ stack = <<>>
             /\ result = "Ok"
             /\ Pooled => (~tx_open /\ AllExited))

\* C8 witness: a pooled run has returned after both workers processed
\* files and exited.
C8_Witness ==
    /\ main_pc = "done"
    /\ num_threads = 2
    /\ AllExited
    /\ processed[P_M] = 2

\* The style of a path's file name, None when it has none.
StyleOf(p) ==
    LET ext == extension(p[Len(p)])
    IN  IF ext = None THEN None ELSE get_language_style(ext[1])

\* The file name has an extension and the style table lists it.
InStyleTable(p) ==
    LET ext == extension(p[Len(p)])
    IN  ext # None /\ ext[1] \in BlockExts \cup SlashExts \cup HashExts \cup DashExts

\* C9: the files a run writes (truncates or stores) are files on no
\* excluded path, with an extension of the style table, whose header was
\* not current.
C9_Frame ==
    \A p \in written :
        /\ \A i \in 1..Len(p) : p[i] \notin config.excludes
        /\ InStyleTable(p)
        /\ ~is_current(fs0[p], make_header_for_style(raw_license_text, StyleOf(p)[1]))

\* C9 witness: a finished run that visited a file without extension, an
\* unsupported file and a current file, and wrote only the stale a/v/d/g.c.
C9_Witness ==
    /\ main_pc = "done"
    /\ processed[P_R] = 1
    /\ processed[P_N] = 1
    /\ processed[P_M] = 1
    /\ fs0[P_M] = CurrentSource
    /\ written = { P_G }

\* C10: a file whose read or write failed is left unmodified, no worker
\* exits because of it, and the run returns Ok.
C10_FailureIsolation ==
    /\ \A p \in failed : fs[p] = fs0[p]
    /\ \A w \in Spawned : wpc[w] = "exited" => recv_err
    /\ main_pc = "done" => result = "Ok"

\* r is the path p or a directory above it.
IsPrefix(r, p) == Len(r) <= Len(p) /\ SubSeq(p, 1, Len(r)) = r

\* A directory between the root r and the file p whose listing fails.
UnlistedBetween(r, p) ==
    \E d \in Dirs : IsPrefix(r, d) /\ IsPrefix(d, p) /\ Fails(d, "read_dir")

\* The number of roots from which the walk reaches the file p: the roots at
\* or above p, when no component of p is excluded; with all listings
\* succeeding, and with the failing listing.
YieldsWithoutFailure(p) ==
    IF is_excluded(p) THEN 0
    ELSE Cardinality({ i \in 1..Len(config.targets) : IsPrefix(config.targets[i], p) })
ExpectedYields(p) ==
    IF is_excluded(p) THEN 0
    ELSE Cardinality({ i \in 1..Len(config.targets) :
                         /\ IsPrefix(config.targets[i], p)
                         /\ ~UnlistedBetween(config.targets[i], p) })

\* C17: when the listing of a directory fails, no file is reached through
\* that directory, the walk goes on with the rest of the stack so that every
\* file outside that subtree is yielded as often as without the failure,
\* and the run returns Ok.
C17_ListingFailureIsolation ==
    /\ \A p \in FilePaths : yielded[p] <= ExpectedYields(p)
    /\ main_pc = "done" =>
           /\ result = "Ok"
           /\ \A p \in FilePaths :
                  /\ yielded[p] = ExpectedYields(p)
                  /\ (~\E d \in Dirs : IsPrefix(d, p) /\ Fails(d, "read_dir"))
                         => yielded[p] = YieldsWithoutFailure(p)

\* C17 witness: the listing of a/v failed in a finished run over a/; a/m.py
\* was yielded and processed, nothing below a/v was.
C17_Witness ==
    /\ main_pc = "done"
    /\ Fails(P_V, "read_dir")
    /\ config.targets = <<P_A>>
    /\ config.excludes = {}
    /\ processed[P_M] = 1
    /\ yielded[P_N] = 0
    /\ yielded[P_G] = 0

\* C18: a worker holds the lock only at recv and never while it is inside
\* process_file, so a worker that is processing leaves the lock to the
\* others; once run has dropped tx and waits in join, every worker exits.
C18_LockOnlyWhilePopping ==
    /\ [](\A w \in Workers : lock = w => (wpc[w] = "recv" /\ ~Busy(w)))
    /\ (main_pc = "join") ~> AllExited

\* C18 witness: worker 1 is writing a file while worker 2 holds the lock
\* and is about to receive the next path.
C18_Witness ==
    /\ job[1].stage = "write"
    /\ lock = 2
    /\ wpc[2] = "recv"
    /\ queue # <<>>

\* C20: for every accepted worker count (0 included) and for the default
\* count, every file the traversal yielded has been through process_file
\* when run returns.
C20_EveryCountDoesTheWork ==
    main_pc = "done" => \A p \in FilePaths : processed[p] = yielded[p]

\* ------------------------------------------------------------------------
\* MainSpec: main, from the command line to the exit code
\* ------------------------------------------------------------------------
\* Largest number of argument groups on a command line.
MaxArgs == 3

OPT_F       == <<"-", "f">>
OPT_FILE    == <<"-", "-", "f", "i", "l", "e">>
OPT_E       == <<"-", "e">>
OPT_EXCLUDE == <<"-", "-", "e", "x", "c", "l", "u", "d", "e">>
OPT_H       == <<"-", "h">>
OPT_HELP    == <<"-", "-", "h", "e", "l", "p">>
OPT_J       == <<"-", "j">>
OPT_JOBS    == <<"-", "-", "j", "o", "b", "s">>

\* An argument that is none of the options.
OPT_UNKNOWN == <<"-", "z">>

Digits == <<"0", "1", "2", "3", "4", "5", "6", "7", "8", "9">>
IsDigit(c) == \E d \in 1..10 : Digits[d] = c
DigitValue(c) == (CHOOSE d \in 1..10 : Digits[d] = c) - 1

\* The value of a text of digits.
DecimalValue[ds \in Text] ==
    IF ds = <<>> THEN 0
    ELSE 10 * DecimalValue[SubSeq(ds, 1, Len(ds) - 1)] + DigitValue(ds[Len(ds)])

\* str::parse::<usize> : an optional "+", then one digit or more.
parse_usize(val) ==
    LET ds == IF StartsWith(val, <<"+">>) THEN Tail(val) ELSE val
    IN  IF ds # <<>> /\ \A i \in 1..Len(ds) : IsDigit(ds[i])
        THEN Some(DecimalValue[ds]) ELSE None

\* PathBuf::from on an argument, as the components is_excluded and the walk
\* see: the names between the "/".
PathFrom[arg \in Text] ==
    LET i == Find(arg, <<"/">>)
    IN  IF arg = <<>> THEN <<>>
        ELSE IF i = 0 THEN <<arg>>
        ELSE IF i = 1 THEN PathFrom[Tail(arg)]
        ELSE <<SubSeq(arg, 1, i - 1)>> \o PathFrom[Drop(arg, i)]

\* What Config::from_env hands to main: Ok(config), Err(message), or the
\* process has exited with a code (usage shown).
Ok(cfg)    == [kind |-> "Ok", config |-> cfg, msg |-> "", code |-> 0]
Err(msg)   == [kind |-> "Err", config |-> <<>>, msg |-> msg, code |-> 1]
Exited(code) == [kind |-> "exit", config |-> <<>>, msg |-> "", code |-> code]

\* Mutant of validate: an empty list of targets is accepted.
validate_without_targets(cfg) ==
    IF cfg.license_file = None THEN Err("Missing required argument: -f/--file")
    ELSE Ok(cfg)

\* Config::validate
validate(cfg) ==
    IF cfg.license_file = None THEN Err("Missing required argument: -f/--file")
    ELSE IF cfg.targets = <<>>
    THEN Err("No target paths specified. Use '.' for current directory.")
    ELSE Ok(cfg)

\* The loop of Config::from_env over the arguments left.
RECURSIVE parse_args(_, _)
parse_args(args, cfg) ==
    IF args = <<>> THEN validate(cfg)
    ELSE LET arg  == Head(args)
             rest == Tail(args)
         IN  IF arg \in { OPT_F, OPT_FILE }
             THEN IF rest = <<>> THEN Err("-f/--file requires an argument")
                  ELSE parse_args(Tail(rest), [cfg EXCEPT !.license_file = Some(Head(rest))])
             ELSE IF arg \in { OPT_E, OPT_EXCLUDE }
             THEN IF rest = <<>> THEN Err("-e/--exclude requires an argument")
                  ELSE parse_args(Tail(rest),
                                  [cfg EXCEPT !.excludes = @ \cup { Head(rest) }])
             ELSE IF arg \in { OPT_H, OPT_HELP }
             THEN Exited(0)
             ELSE IF arg \in { OPT_J, OPT_JOBS }
             THEN IF rest = <<>> THEN Err("-j requires an argument")
                  ELSE IF parse_usize(Head(rest)) = None THEN Err("Invalid number for -j")
                  ELSE parse_args(Tail(rest), [cfg EXCEPT !.jobs = parse_usize(Head(rest))])
             ELSE IF StartsWith(arg, <<"-">>)
             THEN Err("Unknown option")
             ELSE parse_args(rest, [cfg EXCEPT !.targets = Append(@, PathFrom[arg])])

\* The Config that from_env starts from.
EmptyConfig == [license_file |-> None, excludes |-> {}, targets |-> <<>>, jobs |-> None]

\* Config::from_env
from_env(raw_args) ==
    IF raw_args = <<>> THEN Exited(0)
    ELSE parse_args(raw_args, EmptyConfig)

\* The target of the command lines: the directory a/v/d.
ARG_D == <<"a", "/", "v", "/", "d">>

\* The groups command lines are made of: the license file, a worker count,
\* an unparsable worker count, -j without value, an unknown option, help,
\* a target, an exclusion.
ArgGroups ==
    { <<OPT_F, LICENSE_FILE>>,
      <<OPT_JOBS, <<"2">>>>,
      <<OPT_J, <<"x">>>>,
      <<OPT_J>>,
      <<OPT_UNKNOWN>>,
      <<OPT_HELP>>,
      <<ARG_D>>,
      <<OPT_E, V>> }

\* The command lines, with the platform's hint asked for only when -j is
\* absent: up to MaxArgs groups, and those of fewer groups with
\* a last --file that lacks its value.
ArgVectors ==
    Concats(ArgGroups, MaxArgs)
    \cup { c \o <<OPT_FILE>> : c \in Concats(ArgGroups, MaxArgs - 1) }

\* The path of the license file, and the failures of a run of main: none,
\* or the license file cannot be read.
P_L == <<LICENSE_FILE>>
MainFaults == { NoFault, [path |-> P_L, kind |-> "read"] }

MainInit ==
    /\ argv \in ArgVectors
    /\ exit_code = None
    /\ raw_license_text = <<>>
    /\ file_name = <<>>
    /\ orig = <<>>
    /\ disk = <<>>
    /\ log = <<>>
    /\ config = EmptyConfig
    /\ available_parallelism \in Hints
    /\ (from_env(argv).kind # "Ok" \/ from_env(argv).config.jobs # None)
           => available_parallelism = None
    /\ fs0 \in InitialFiles
    /\ fs0[P_M] = StaleScript
    /\ fs = fs0
    /\ fault \in MainFaults
    /\ main_pc = "main"
    /\ Unstarted

\* main, first step: Config::from_env; an error is printed with the usage
\* text and the process exits with code 1.
FromEnv ==
    /\ main_pc = "main"
    /\ LET r == from_env(argv)
       IN  IF r.kind = "Ok"
           THEN config' = r.config /\ main_pc' = "new" /\ UNCHANGED exit_code
           ELSE exit_code' = Some(r.code) /\ main_pc' = "exited" /\ UNCHANGED config
    /\ UNCHANGED <<argv, raw_license_text, pipeline_vars, available_parallelism, fs0, fs,
                   fault, stack, queue, tx_open, lock, wpc, job, yielded, popped,
                   processed, reads, written, failed, result>>

\* main, second step: LiceEngine::new reads the license file; a failure
\* is printed and the process exits with code 1.
NewEngine ==
    /\ main_pc = "new"
    /\ LET path == PathFrom[config.license_file[1]]
       IN  IF path = P_L /\ ~Fails(path, "read")
           THEN /\ raw_license_text' = License
                /\ reads' = reads \cup { path }
                /\ main_pc' = "start"
                /\ UNCHANGED exit_code
           ELSE /\ exit_code' = Some(1)
                /\ main_pc' = "exited"
                /\ UNCHANGED <<raw_license_text, reads>>
    /\ UNCHANGED <<argv, pipeline_vars, config, available_parallelism, fs0, fs, fault,
                   stack, queue, tx_open, lock, wpc, job, yielded, popped, processed,
                   written, failed, result>>

\* main, last step: run has returned Ok and main returns.
MainReturn ==
    /\ main_pc = "done"
    /\ exit_code = None
    /\ exit_code' = Some(0)
    /\ main_pc' = "exited"
    /\ UNCHANGED <<argv, raw_license_text, pipeline_vars, run_vars_but_pc>>

MainNext == FromEnv \/ NewEngine \/ MainReturn \/ Next

MainSpec == MainInit /\ [][MainNext]_vars

\* ------------------------------------------------------------------------
\* Properties of main (MainSpec)
\* ------------------------------------------------------------------------
ValueOptions == { OPT_F, OPT_FILE, OPT_E, OPT_EXCLUDE, OPT_J, OPT_JOBS }
KnownOptions == ValueOptions \cup { OPT_H, OPT_HELP }

\* The i-th argument stands where an option or a target is expected: it is
\* not the value of the option before it.
IsOptionPosition(a, i) ==
    LET at[k \in 1..Len(a)] ==
            IF k = 1 THEN TRUE ELSE ~(at[k - 1] /\ a[k - 1] \in ValueOptions)
    IN  at[i]

\* A text of digits.
IsNumber(val) == val # <<>> /\ \A i \in 1..Len(val) : IsDigit(val[i])

UnknownFlagAt(a, i) ==
    IsOptionPosition(a, i) /\ StartsWith(a[i], <<"-">>) /\ a[i] \notin KnownOptions
BadJobsAt(a, i) ==
    /\ IsOptionPosition(a, i)
    /\ a[i] \in { OPT_J, OPT_JOBS }
    /\ i = Len(a) \/ ~IsNumber(a[i + 1])
MissingValueAt(a, i) ==
    IsOptionPosition(a, i) /\ a[i] \in ValueOptions /\ i = Len(a)
HelpAt(a, i) == IsOptionPosition(a, i) /\ a[i] \in { OPT_H, OPT_HELP }

\* No -f/--file with a value; no target path.
MissingFile(a) ==
    ~\E i \in 1..(Len(a) - 1) : IsOptionPosition(a, i) /\ a[i] \in { OPT_F, OPT_FILE }
NoTargets(a) ==
    ~\E i \in 1..Len(a) : IsOptionPosition(a, i) /\ ~StartsWith(a[i], <<"-">>)

\* The command line has one of the configuration errors.
ConfigError(a) ==
    \/ MissingFile(a)
    \/ \E i \in 1..Len(a) : UnknownFlagAt(a, i)
    \/ \E i \in 1..Len(a) : BadJobsAt(a, i)
    \/ NoTargets(a)

\* A -h/--help stands before the first argument the parser rejects.
HelpFirst(a) ==
    \E i \in 1..Len(a) :
        /\ HelpAt(a, i)
        /\ \A j \in 1..(i - 1) :
               ~(UnknownFlagAt(a, j) \/ BadJobsAt(a, j) \/ MissingValueAt(a, j))

\* Nothing but the command line has been looked at: the engine was not
\* built, no file was read or written.
NothingTouched ==
    /\ main_pc \in { "main", "exited" }
    /\ config = EmptyConfig
    /\ raw_license_text = <<>>
    /\ reads = {}
    /\ written = {}
    /\ fs = fs0

P_DOT == <<<<".">>>>

\* C14: an invocation that gives -f/--file and no path (and is otherwise
\* well-formed) runs with the current directory as its only root.
C14_DefaultTarget ==
    ( /\ ~MissingFile(argv)
      /\ NoTargets(argv)
      /\ ~\E i \in 1..Len(argv) :
             UnknownFlagAt(argv, i) \/ BadJobsAt(argv, i) \/ MissingValueAt(argv, i)
                \/ HelpAt(argv, i)
      /\ main_pc # "main" )
    => /\ config.targets = P_DOT
       /\ exit_code # Some(1)

====
